---- MODULE Spec2Model ----
(***************************************************************************)
(* Passkey (WebAuthn) registration and authentication ceremonies of the    *)
(* Nuxt example application: server/api/webauthn/register.post.ts,         *)
(* server/api/webauthn/authenticate.post.ts, server/utils/user.ts and      *)
(* server/utils/credential.ts, over the users / credentials tables and the *)
(* key-value challenge storage.  Every await of a handler is a separate    *)
(* step, so that requests of different clients interleave at the awaits.   *)
(***************************************************************************)
EXTENDS Integers, Sequences, FiniteSets, TLC

\* ---------------------------------------------------------------- bounds
MaxCounter == 2
MaxUsers == 2

Slots == {1, 2}
Counters == 0..MaxCounter

\* ------------------------------------------------------------- universes
ValidEmails == {"a@x.io", "b@x.io"}
UserNames == ValidEmails \cup {"not-an-email"}
CredIds == {"cred-1", "cred-2"}
AttemptIds == {"t1", "t2"}
Challenges == {"ch-x", "ch-y"}
NoUserName == ""

\* what the attestation verifier can report: id, publicKey, counter, backedUp
\* and the optional transports (<<>> stands for an absent field, <<S>> for
\* the list S)
\* a credential id names one key pair of one authenticator, so the verifier
\* reports the same key material whenever it reports that id
Attestations ==
  { [id |-> "cred-1", publicKey |-> "pk-1", counter |-> 0, backedUp |-> FALSE,
     transports |-> <<>>],
    [id |-> "cred-2", publicKey |-> "pk-2", counter |-> 1, backedUp |-> TRUE,
     transports |-> <<{"usb", "nfc"}>>] }

\* ----------------------------------------------------------------- errors
NoResult == [statusCode |-> 0, message |-> "none"]
Ok == [statusCode |-> 200, message |-> "ok"]
IdentityConflict == [statusCode |-> 400, message |-> "Email not matching curent session"]
ValidationError == [statusCode |-> 500, message |-> "ZodError: Invalid email address"]
VerificationError == [statusCode |-> 400, message |-> "verification failed"]
ConflictError == [statusCode |-> 500, message |-> "SQLITE_CONSTRAINT: UNIQUE constraint failed"]
UserNotFound == [statusCode |-> 400, message |-> "User not found"]
CredentialNotFound == [statusCode |-> 400, message |-> "Passkey not associated with a user account"]
UpdateFailed == [statusCode |-> 500, message |-> "SQLITE_ERROR: update failed"]
ChallengeExpired == [statusCode |-> 400, message |-> "Challenge expired"]

VARIABLES
  users,        \* table users: sequence of rows [id, email], in rowid order
  credentials,  \* table credentials: set of rows
  storage,      \* useStorage(): key attempt:<attemptId> -> {} or {challenge}
  session,      \* sealed session cookie of each client: {} or {user row}
  pc,           \* position of each client's request in its handler
  loc,          \* locals of each client's request
  result,       \* response of the request a client has in flight
  served        \* per attempt id: has a getChallenge call returned a value
                \* since the latest storeChallenge for that id?

vars == <<users, credentials, storage, session, pc, loc, result, served>>

NoLocals ==
  [ userName |-> NoUserName, attestation |-> {}, dbUser |-> {},
    credentialId |-> "", credential |-> {}, allowCredentials |-> {},
    attemptId |-> "", challenge |-> "", newCounter |-> 0,
    wrote |-> {}, threw |-> "" ]

\* ------------------------------------------------------- server/utils/user
UserRows == {users[i] : i \in 1..Len(users)}

\* faulty variant: the lookup by email never finds the row
findUserByEmailNever(email) == {}

\* faulty variant: findFirst without its where clause
findUserByEmailAny(email) == IF users = <<>> THEN {} ELSE {users[1]}

\* db.query.users.findFirst({ where: eq(users.email, email) })
findUserByEmail(email) ==
  LET idx == {i \in 1..Len(users) : users[i].email = email}
  IN  IF idx = {} THEN {}
      ELSE {users[CHOOSE i \in idx : \A j \in idx : i <= j]}

\* faulty variant: findFirst without its where clause
findUserByIdFirst(id) == IF users = <<>> THEN {} ELSE {users[1]}

\* db.query.users.findFirst({ where: eq(users.id, Number(id)) })
findUserById(id) == {u \in UserRows : u.id = id}

\* id is an INTEGER PRIMARY KEY: the next rowid
NextUserId == Len(users) + 1

\* db.insert(users).values(userData).returning()
createUser(email) == [id |-> NextUserId, email |-> email]

\* ------------------------------------------------- server/utils/credential
\* credential.transports || []
transportsOrEmpty(t) == IF t = <<>> THEN {} ELSE t[1]

\* faulty variant: the row is bound to the id after the user's
CredentialRowWrongOwner(userId, att) ==
  [ userId |-> userId + 1, id |-> att.id, publicKey |-> att.publicKey,
    counter |-> att.counter, backedUp |-> att.backedUp,
    transports |-> IF att.transports = <<>> THEN {} ELSE att.transports[1] ]

\* faulty variant: the row is stored with a zero counter instead of the reported one
CredentialRowZeroCounter(userId, att) ==
  [ userId |-> userId, id |-> att.id, publicKey |-> att.publicKey,
    counter |-> 0, backedUp |-> att.backedUp,
    transports |-> IF att.transports = <<>> THEN {} ELSE att.transports[1] ]

\* the row saveCredential inserts for register.post.ts's
\* { userId: dbUser.id, ...credential, transports: credential.transports || [] }
CredentialRow(userId, att) ==
  [ userId |-> userId, id |-> att.id, publicKey |-> att.publicKey,
    counter |-> att.counter, backedUp |-> att.backedUp,
    transports |-> transportsOrEmpty(att.transports) ]

\* faulty variant: no unique index on credentials.id
UniqueViolationNever(id) == FALSE

\* id: text("id").notNull().unique()
UniqueViolation(id) == \E c \in credentials : c.id = id

\* db.insert(credentials).values({...})
saveCredential(row) == credentials \cup {row}

\* faulty variant: findFirst without its where clause
findCredentialByIdAny(id) ==
  IF credentials = {} THEN {}
  ELSE LET c == CHOOSE d \in credentials : TRUE
       IN  {[id |-> c.id, userId |-> c.userId]}

\* db.query.credentials.findFirst({ where: eq(credentials.id, id) }); of the
\* row, the handlers read id and userId
findCredentialById(id) ==
  {[id |-> c.id, userId |-> c.userId] : c \in {d \in credentials : d.id = id}}

\* faulty variant: findMany without its where clause
findCredentialsByUserIdAll(userId) == credentials

\* db.query.credentials.findMany({ where: eq(credentials.userId, userId) })
findCredentialsByUserId(userId) == {c \in credentials : c.userId = userId}

\* faulty variant: the counter is only ever raised
updateCredentialCounterMax(id, counter) ==
  { IF c.id = id /\ counter > c.counter THEN [c EXCEPT !.counter = counter]
    ELSE c : c \in credentials }

\* faulty variant: the update lacks its where clause
updateCredentialCounterAllRows(id, counter) ==
  { [c EXCEPT !.counter = counter] : c \in credentials }

\* db.update(credentials).set({ counter }).where(eq(credentials.id, id))
updateCredentialCounter(id, counter) ==
  { IF c.id = id THEN [c EXCEPT !.counter = counter] ELSE c : c \in credentials }

\* ------------------------------------------------------------ useStorage()
\* faulty variant: an existing entry is kept
setItemIfAbsent(attemptId, challenge) ==
  IF storage[attemptId] = {} THEN [storage EXCEPT ![attemptId] = {challenge}]
  ELSE storage

\* useStorage().setItem(`attempt:${attemptId}`, challenge)
setItem(attemptId, challenge) == [storage EXCEPT ![attemptId] = {challenge}]

getItem(attemptId) == storage[attemptId]

\* faulty variant: every attempt is removed
removeItemAll(attemptId) == [a \in AttemptIds |-> {}]

\* faulty variant: the entry is not removed
removeItemSkipped(attemptId) == storage

removeItem(attemptId) == [storage EXCEPT ![attemptId] = {}]

\* (... as string) || "": null and the empty string both give ""
orEmpty(item) == IF item = {} THEN "" ELSE CHOOSE v \in item : TRUE

\* --------------------------------------------------------------- validateUser
\* faulty variant: === in place of !==
SessionEmailMismatchInverted(sess, userName) ==
  \E u \in sess : u.email # "" /\ u.email = userName

\* session.user?.email && session.user.email !== userBody.userName
SessionEmailMismatch(sess, userName) ==
  \E u \in sess : u.email # "" /\ u.email # userName

\* faulty variant: any string passes
IsEmailAlways(s) == TRUE

\* z.email()
IsEmail(s) == s \in ValidEmails

TypeOK ==
  /\ \A i \in 1..Len(users) : users[i].email \in ValidEmails
  /\ \A c \in credentials : c.id \in CredIds /\ c.counter \in Counters
  /\ \A a \in AttemptIds : storage[a] \subseteq Challenges
  /\ \A r \in Slots : Cardinality(session[r]) <= 1

Init ==
  /\ users = <<>>
  /\ credentials = {}
  /\ storage = [a \in AttemptIds |-> {}]
  /\ session = [r \in Slots |-> {}]
  /\ pc = [r \in Slots |-> "idle"]
  /\ loc = [r \in Slots |-> NoLocals]
  /\ result = [r \in Slots |-> NoResult]
  /\ served = [a \in AttemptIds |-> FALSE]

\* the handler returns or throws: the locals die with the request.  Kept
\* for the record: wrote, the store writes the request performed, and threw,
\* the callback that threw.
Finish(r, res, w, by) ==
  /\ pc' = [pc EXCEPT ![r] = "done"]
  /\ result' = [result EXCEPT ![r] = res]
  /\ loc' = [loc EXCEPT ![r] = [NoLocals EXCEPT !.wrote = w, !.threw = by]]

\* faulty variant: the failing step is tried again instead of propagating
ThrowAndRetry(r, err, by) ==
  /\ result' = [result EXCEPT ![r] = err]
  /\ UNCHANGED <<pc, loc>>

Throw(r, err, by) == Finish(r, err, loc[r].wrote, by)

Return(r, w) == Finish(r, Ok, w, "")

Goto(r, label, l) ==
  /\ pc' = [pc EXCEPT ![r] = label]
  /\ loc' = [loc EXCEPT ![r] = l]
  /\ UNCHANGED result

\* no other client has a request in flight
OthersIdle(r) == \A q \in Slots \ {r} : pc[q] = "idle"

\* ============================================================ registration
\* POST /api/webauthn/register arrives with body.user.userName
RegisterRequest(r, in) ==
  /\ pc[r] = "idle"
  /\ in.concurrent \/ OthersIdle(r)
  /\ \E userName \in in.userNames :
       Goto(r, "reg_validateUser", [NoLocals EXCEPT !.userName = userName])
  /\ UNCHANGED <<users, credentials, storage, session, served>>

\* validateUser(userBody, event)
RegValidateUser(r) ==
  /\ pc[r] = "reg_validateUser"
  /\ IF SessionEmailMismatch(session[r], loc[r].userName)
       THEN Throw(r, IdentityConflict, "validateUser:session")
     ELSE IF ~IsEmail(loc[r].userName)
       THEN Throw(r, ValidationError, "validateUser:email")
     ELSE Goto(r, "reg_verify", loc[r])
  /\ UNCHANGED <<users, credentials, storage, session, served>>

\* faulty variant: the user row is inserted before the verifier's verdict
RegVerifyPersistsFirst(r, in) ==
  /\ pc[r] = "reg_verify"
  /\ \/ /\ Len(users) < MaxUsers
        /\ users' = Append(users, createUser(loc[r].userName))
        /\ Finish(r, VerificationError, loc[r].wrote \cup {"user"}, "verify")
     \/ /\ UNCHANGED users
        /\ \E att \in {a \in Attestations : a.id \in in.credIds} :
             Goto(r, "reg_findUserByEmail", [loc[r] EXCEPT !.attestation = {att}])
  /\ UNCHANGED <<credentials, storage, session, served>>

\* the attestation verifier: fails, or reports the credential
RegVerify(r, in) ==
  /\ pc[r] = "reg_verify"
  /\ \/ Throw(r, VerificationError, "verify")
     \/ \E att \in {a \in Attestations : a.id \in in.credIds} :
          Goto(r, "reg_findUserByEmail", [loc[r] EXCEPT !.attestation = {att}])
  /\ UNCHANGED <<users, credentials, storage, session, served>>

\* onSuccess: let dbUser = await findUserByEmail(user.userName)
RegFindUserByEmail(r) ==
  /\ pc[r] = "reg_findUserByEmail"
  /\ LET dbUser == findUserByEmail(loc[r].userName)
     IN  Goto(r, IF dbUser = {} THEN "reg_createUser" ELSE "reg_saveCredential",
              [loc[r] EXCEPT !.dbUser = dbUser])
  /\ UNCHANGED <<users, credentials, storage, session, served>>

\* onSuccess: dbUser = await createUser({ email: user.userName })
RegCreateUser(r) ==
  /\ pc[r] = "reg_createUser"
  /\ Len(users) < MaxUsers
  /\ LET row == createUser(loc[r].userName)
     IN  /\ users' = Append(users, row)
         /\ Goto(r, "reg_saveCredential",
                 [loc[r] EXCEPT !.dbUser = {row}, !.wrote = @ \cup {"user"}])
  /\ UNCHANGED <<credentials, storage, session, served>>

\* faulty variant: the session is set before the credential is saved
RegSaveCredentialSessionFirst(r) ==
  /\ pc[r] = "reg_saveCredential"
  /\ session' = [session EXCEPT ![r] = loc[r].dbUser]
  /\ LET att == CHOOSE a \in loc[r].attestation : TRUE
         dbUser == CHOOSE u \in loc[r].dbUser : TRUE
     IN  IF UniqueViolation(att.id)
           THEN /\ Throw(r, ConflictError, "saveCredential")
                /\ UNCHANGED credentials
           ELSE /\ credentials' = saveCredential(CredentialRow(dbUser.id, att))
                /\ Goto(r, "reg_setUserSession",
                        [loc[r] EXCEPT !.wrote = @ \cup {"credential"}])
  /\ UNCHANGED <<users, storage, served>>

\* onSuccess: await saveCredential({ userId: dbUser.id, ...credential, ... })
RegSaveCredential(r) ==
  /\ pc[r] = "reg_saveCredential"
  /\ LET att == CHOOSE a \in loc[r].attestation : TRUE
         dbUser == CHOOSE u \in loc[r].dbUser : TRUE
     IN  IF UniqueViolation(att.id)
           THEN /\ Throw(r, ConflictError, "saveCredential")
                /\ UNCHANGED credentials
           ELSE /\ credentials' = saveCredential(CredentialRow(dbUser.id, att))
                /\ Goto(r, "reg_setUserSession",
                        [loc[r] EXCEPT !.wrote = @ \cup {"credential"}])
  /\ UNCHANGED <<users, storage, session, served>>

\* onSuccess: await setUserSession(event, { user: dbUser, loggedInAt })
RegSetUserSession(r) ==
  /\ pc[r] = "reg_setUserSession"
  /\ session' = [session EXCEPT ![r] = loc[r].dbUser]
  /\ Return(r, loc[r].wrote \cup {"session"})
  /\ UNCHANGED <<users, credentials, storage, served>>

\* ================================================= authentication: options
\* POST /api/webauthn/authenticate without a response: the options request,
\* with or without body.userName
OptionsRequest(r, in) ==
  /\ pc[r] = "idle"
  /\ in.concurrent \/ OthersIdle(r)
  /\ \/ Goto(r, "opt_storeChallenge", NoLocals)
     \/ \E userName \in in.userNames :
          Goto(r, "opt_findUserByEmail", [NoLocals EXCEPT !.userName = userName])
  /\ UNCHANGED <<users, credentials, storage, session, served>>

\* allowCredentials: const user = await findUserByEmail(userName)
OptFindUserByEmail(r) ==
  /\ pc[r] = "opt_findUserByEmail"
  /\ LET user == findUserByEmail(loc[r].userName)
     IN  IF user = {}
           THEN Throw(r, UserNotFound, "allowCredentials:user")
           ELSE Goto(r, "opt_findCredentialsByUserId", [loc[r] EXCEPT !.dbUser = user])
  /\ UNCHANGED <<users, credentials, storage, session, served>>

\* allowCredentials: const allCredentials = await findCredentialsByUserId(user.id)
OptFindCredentialsByUserId(r) ==
  /\ pc[r] = "opt_findCredentialsByUserId"
  /\ LET user == CHOOSE u \in loc[r].dbUser : TRUE
         allCredentials == findCredentialsByUserId(user.id)
     IN  IF allCredentials = {}
           THEN Throw(r, UserNotFound, "allowCredentials:credentials")
           ELSE Goto(r, "opt_storeChallenge",
                     [NoLocals EXCEPT !.allowCredentials = allCredentials])
  /\ UNCHANGED <<users, credentials, storage, session, served>>

\* storeChallenge(event, challenge, attemptId), with the challenge and the
\* attempt id the options are generated with; both go back to the client in
\* the response
OptStoreChallenge(r, in) ==
  /\ pc[r] = "opt_storeChallenge"
  /\ \E attemptId \in in.attemptIds, challenge \in in.challenges :
       /\ storage' = setItem(attemptId, challenge)
       /\ served' = [served EXCEPT ![attemptId] = FALSE]
       /\ pc' = [pc EXCEPT ![r] = "done"]
       /\ result' = [result EXCEPT ![r] = Ok]
       /\ loc' = [loc EXCEPT ![r] =
                   [NoLocals EXCEPT !.wrote = loc[r].wrote \cup {"challenge"},
                                    !.attemptId = attemptId,
                                    !.challenge = challenge]]
  /\ UNCHANGED <<users, credentials, session>>

\* ================================================== authentication: verify
\* POST /api/webauthn/authenticate with the authenticator's response
AuthenticateRequest(r, in) ==
  /\ pc[r] = "idle"
  /\ in.concurrent \/ OthersIdle(r)
  /\ \E credentialId \in in.credIds, attemptId \in in.attemptIds :
       Goto(r, "auth_getCredential",
            [NoLocals EXCEPT !.credentialId = credentialId, !.attemptId = attemptId])
  /\ UNCHANGED <<users, credentials, storage, session, served>>

\* getCredential(event, credentialId)
AuthGetCredential(r) ==
  /\ pc[r] = "auth_getCredential"
  /\ LET credential == findCredentialById(loc[r].credentialId)
     IN  IF credential = {}
           THEN Throw(r, CredentialNotFound, "getCredential")
           ELSE Goto(r, "auth_getItem",
                     [loc[r] EXCEPT !.credential = credential, !.credentialId = ""])
  /\ UNCHANGED <<users, credentials, storage, session, served>>

\* getChallenge: (await useStorage().getItem(`attempt:${attemptId}`)) || ""
AuthGetItem(r) ==
  /\ pc[r] = "auth_getItem"
  /\ Goto(r, "auth_removeItem",
          [loc[r] EXCEPT !.challenge = orEmpty(getItem(loc[r].attemptId))])
  /\ UNCHANGED <<users, credentials, storage, session, served>>

\* getChallenge: await useStorage().removeItem(...); if (!challenge) throw
AuthRemoveItem(r) ==
  /\ pc[r] = "auth_removeItem"
  /\ storage' = removeItem(loc[r].attemptId)
  /\ IF loc[r].challenge = ""
       THEN /\ Finish(r, ChallengeExpired, loc[r].wrote \cup {"challenge"},
                   "getChallenge")
            /\ UNCHANGED served
       ELSE /\ Goto(r, "auth_verify",
                    [loc[r] EXCEPT !.wrote = @ \cup {"challenge"}])
            /\ served' = [served EXCEPT ![loc[r].attemptId] = TRUE]
  /\ UNCHANGED <<users, credentials, session>>

\* the assertion verifier: fails, or reports authenticationInfo.newCounter
AuthVerify(r) ==
  /\ pc[r] = "auth_verify"
  /\ \/ Throw(r, VerificationError, "verify")
     \/ \E newCounter \in Counters :
          Goto(r, "auth_updateCredentialCounter",
               [loc[r] EXCEPT !.newCounter = newCounter, !.attemptId = "",
                              !.challenge = ""])
  /\ UNCHANGED <<users, credentials, storage, session, served>>

\* faulty variant: a rejected update is swallowed and the handler goes on
AuthUpdateCredentialCounterSwallows(r) ==
  /\ pc[r] = "auth_updateCredentialCounter"
  /\ LET credential == CHOOSE c \in loc[r].credential : TRUE
     IN  \/ /\ credentials' = updateCredentialCounter(credential.id, loc[r].newCounter)
            /\ Goto(r, "auth_findUserById",
                    [loc[r] EXCEPT !.wrote = @ \cup {"counter"}, !.newCounter = 0])
         \/ /\ UNCHANGED credentials
            /\ Goto(r, "auth_findUserById", [loc[r] EXCEPT !.newCounter = 0])
  /\ UNCHANGED <<users, storage, session, served>>

\* onSuccess: await updateCredentialCounter(credential.id, newCounter); the
\* awaited db.update resolves, or rejects and onSuccess throws
AuthUpdateCredentialCounter(r) ==
  /\ pc[r] = "auth_updateCredentialCounter"
  /\ LET credential == CHOOSE c \in loc[r].credential : TRUE
     IN  \/ /\ credentials' = updateCredentialCounter(credential.id, loc[r].newCounter)
            /\ Goto(r, "auth_findUserById",
                    [loc[r] EXCEPT !.wrote = @ \cup {"counter"}, !.newCounter = 0])
         \/ /\ UNCHANGED credentials
            /\ Throw(r, UpdateFailed, "updateCredentialCounter")
  /\ UNCHANGED <<users, storage, session, served>>

\* onSuccess: const user = await findUserById(credential.userId);
\* if (!user) throw createError(...)
AuthFindUserById(r) ==
  /\ pc[r] = "auth_findUserById"
  /\ LET credential == CHOOSE c \in loc[r].credential : TRUE
         user == findUserById(credential.userId)
     IN  IF user = {}
           THEN Throw(r, UserNotFound, "onSuccess:user")
           ELSE Goto(r, "auth_setUserSession",
                     [loc[r] EXCEPT !.dbUser = user, !.credential = {}])
  /\ UNCHANGED <<users, credentials, storage, session, served>>

\* onSuccess: await setUserSession(event, { user, loggedInAt })
AuthSetUserSession(r) ==
  /\ pc[r] = "auth_setUserSession"
  /\ session' = [session EXCEPT ![r] = loc[r].dbUser]
  /\ Return(r, loc[r].wrote \cup {"session"})
  /\ UNCHANGED <<users, credentials, storage, served>>

\* ================================================================== client
\* the response is sent; the client can issue its next request
Respond(r) ==
  /\ pc[r] = "done"
  /\ pc' = [pc EXCEPT ![r] = "idle"]
  /\ loc' = [loc EXCEPT ![r] = NoLocals]
  /\ result' = [result EXCEPT ![r] = NoResult]
  /\ UNCHANGED <<users, credentials, storage, session, served>>

\* UserDisplay.vue handleLogout: clear()
Logout(r, in) ==
  /\ pc[r] = "idle"
  /\ in.concurrent \/ OthersIdle(r)
  /\ session[r] # {}
  /\ session' = [session EXCEPT ![r] = {}]
  /\ UNCHANGED <<users, credentials, storage, pc, loc, result, served>>

Step(r, in) ==
  \/ RegisterRequest(r, in)
  \/ RegValidateUser(r)
  \/ RegVerify(r, in)
  \/ RegFindUserByEmail(r)
  \/ RegCreateUser(r)
  \/ RegSaveCredential(r)
  \/ RegSetUserSession(r)
  \/ OptionsRequest(r, in)
  \/ OptFindUserByEmail(r)
  \/ OptFindCredentialsByUserId(r)
  \/ OptStoreChallenge(r, in)
  \/ AuthenticateRequest(r, in)
  \/ AuthGetCredential(r)
  \/ AuthGetItem(r)
  \/ AuthRemoveItem(r)
  \/ AuthVerify(r)
  \/ AuthUpdateCredentialCounter(r)
  \/ AuthFindUserById(r)
  \/ AuthSetUserSession(r)
  \/ Respond(r)
  \/ Logout(r, in)

\* the inputs the clients draw their requests from
AllInputs ==
  [ concurrent |-> FALSE, userNames |-> UserNames, credIds |-> CredIds,
    attemptIds |-> AttemptIds, challenges |-> Challenges ]

RacingInputs ==
  [ concurrent |-> TRUE, userNames |-> {"a@x.io", "not-an-email"},
    credIds |-> CredIds, attemptIds |-> {"t1"}, challenges |-> {"ch-x"} ]

\* one request at a time: a request runs to its response before the next
\* one arrives
NextSeq == \E r \in Slots : Step(r, AllInputs)

SpecSeq == Init /\ [][NextSeq]_vars

\* requests of different clients interleave at every await
Next == \E r \in Slots : Step(r, RacingInputs)

Spec == Init /\ [][Next]_vars

\* the server keeps serving requests, one at a time, for ever
LiveInputs ==
  [ concurrent |-> FALSE, userNames |-> {"a@x.io", "not-an-email"},
    credIds |-> {"cred-1"}, attemptIds |-> {"t1"}, challenges |-> {"ch-x"} ]

NextLive == \E r \in Slots : Step(r, LiveInputs)

SpecLive == Init /\ [][NextLive]_vars /\ WF_vars(NextLive)

\* ============================================================== properties
TheCredential(r) == CHOOSE c \in loc[r].credential : TRUE
TheAttestation(r) == CHOOSE a \in loc[r].attestation : TRUE
TheDbUser(r) == CHOOSE u \in loc[r].dbUser : TRUE

\* C1: replay rejection.  When the stored counter of the asserted credential
\* is c >= 1, an authentication whose verifier-reported newCounter is <= c
\* fails, leaves the stored counter at c and establishes no session; one
\* whose newCounter is > c leaves the stored counter equal to newCounter.
C1_ReplayRejected ==
  [][\A r \in Slots :
       (pc[r] = "auth_updateCredentialCounter" /\ pc'[r] # pc[r]) =>
         \A c \in credentials :
           (c.id = TheCredential(r).id /\ c.counter >= 1) =>
             IF loc[r].newCounter <= c.counter
               THEN /\ pc'[r] = "done"
                    /\ result'[r] # Ok
                    /\ credentials' = credentials
                    /\ session' = session
               ELSE \E d \in credentials' :
                      d.id = c.id /\ d.counter = loc[r].newCounter]_vars

\* C2: challenge single use.  With requests served one at a time, every
\* getChallenge(attemptId) removes the entry; the first call after
\* storeChallenge(attemptId, value) returns value, and once a call has
\* returned the value every later call (no storeChallenge for that id in
\* between) fails with "Challenge expired".
C2_ChallengeSingleUse ==
  [][\A r \in Slots :
       (pc[r] = "auth_removeItem" /\ pc'[r] # pc[r]) =>
         LET a == loc[r].attemptId
         IN  /\ storage'[a] = {}
             /\ (storage[a] # {} /\ ~served[a]) =>
                  (pc'[r] = "auth_verify" /\ storage[a] = {loc'[r].challenge})
             /\ served[a] =>
                  (pc'[r] = "done" /\ result'[r] = ChallengeExpired)]_vars

\* a call has returned the value of attemptId, and a later call for the same
\* id has read nothing
C2_Witness ==
  \E r \in Slots :
    /\ pc[r] = "auth_removeItem"
    /\ served[loc[r].attemptId]
    /\ loc[r].challenge = ""

\* C3: atomic consume.  Two authentication requests that call getChallenge
\* for the same attemptId concurrently never both observe the challenge as
\* present: at most one of them obtains the value.
C3_AtMostOneObtains ==
  \A r1, r2 \in Slots :
    (/\ r1 # r2
     /\ pc[r1] = "auth_removeItem"
     /\ pc[r2] = "auth_removeItem"
     /\ loc[r1].attemptId = loc[r2].attemptId)
      => ~(loc[r1].challenge # "" /\ loc[r2].challenge # "")

\* C4: counter monotonicity.  From one state to the next, the stored counter
\* of no credential decreases.
C4_CounterNeverDecreases ==
  [][\A c \in credentials : \A d \in credentials' :
       d.id = c.id => d.counter >= c.counter]_vars

\* C5: identity-conflict guard.  A registration made while a session is
\* active for email A with claimed identity B # A fails with 400 "Email not
\* matching curent session", and creates no user row, no credential row and
\* does not change the session.
C5_IdentityConflictGuard ==
  /\ [][\A r \in Slots :
          (/\ pc[r] = "reg_validateUser"
           /\ pc'[r] # pc[r]
           /\ \E u \in session[r] : u.email # loc[r].userName)
            => /\ pc'[r] = "done"
               /\ result'[r] = IdentityConflict
               /\ users' = users
               /\ credentials' = credentials
               /\ session' = session]_vars
  /\ [](\A r \in Slots :
          result[r] = IdentityConflict => (pc[r] = "done" /\ loc[r].wrote = {}))

\* a registration has been refused with the identity conflict while its
\* client holds a session and users are registered
C5_Witness ==
  \E r \in Slots :
    /\ pc[r] = "done"
    /\ result[r] = IdentityConflict
    /\ session[r] # {}
    /\ Len(users) = 2

\* C6: enumeration resistance.  The failure returned for a claimed identity
\* that is not registered (status code and message) is the same as the one
\* returned for a credential id that is not in the credentials table.
C6_SameFailure ==
  \A r1, r2 \in Slots :
    (/\ pc[r1] = "done" /\ loc[r1].threw = "allowCredentials:user"
     /\ pc[r2] = "done" /\ loc[r2].threw = "getCredential")
      => result[r1] = result[r2]

\* C7: user-level idempotence of registration.  With requests served one at
\* a time, no two user rows share an email; a user row is created only by a
\* registration whose email has no row yet; and a registration that saves
\* its credential binds it to the id of the user row with the claimed email.
C7_UserIdempotence ==
  /\ [](\A i, j \in 1..Len(users) : users[i].email = users[j].email => i = j)
  /\ [][/\ users' # users =>
             \E r \in Slots :
               /\ pc[r] = "reg_createUser"
               /\ \A i \in 1..Len(users) : users[i].email # loc[r].userName
               /\ Len(users') = Len(users) + 1
               /\ \A i \in 1..Len(users) : users'[i] = users[i]
               /\ users'[Len(users')].email = loc[r].userName
        /\ \A r \in Slots :
             (pc[r] = "reg_saveCredential" /\ pc'[r] = "reg_setUserSession") =>
               \E row \in credentials' \ credentials :
                 \E i \in 1..Len(users) :
                   /\ users[i].email = loc[r].userName
                   /\ row.userId = users[i].id
                   /\ row.id = TheAttestation(r).id]_vars

\* a second passkey has been registered for an email that already had a user
C7_Witness ==
  /\ Len(users) = 1
  /\ Cardinality(credentials) = 2
  /\ \A c \in credentials : c.userId = users[1].id

\* C8: a registration that saves its credential adds exactly one row, with
\* the id, publicKey, counter and backedUp the verifier reported, the reported
\* transports (none when absent) and the resolved user's id; every other row
\* is unchanged, and no other step of a registration touches the table.
C8_OneCredentialRow ==
  [][\A r \in Slots :
       (pc[r] \in {"reg_validateUser", "reg_verify", "reg_findUserByEmail",
                   "reg_createUser", "reg_saveCredential", "reg_setUserSession"}
        /\ pc'[r] # pc[r]) =>
         IF pc'[r] = "reg_setUserSession"
           THEN LET att == TheAttestation(r)
                    row == [ userId |-> TheDbUser(r).id, id |-> att.id,
                             publicKey |-> att.publicKey, counter |-> att.counter,
                             backedUp |-> att.backedUp,
                             transports |-> IF Len(att.transports) = 0 THEN {}
                                            ELSE att.transports[1] ]
                IN  /\ row \notin credentials
                    /\ credentials' = credentials \cup {row}
                    /\ Cardinality(credentials') = Cardinality(credentials) + 1
           ELSE credentials' = credentials]_vars

\* a second row has just been added beside an earlier one
C8_Witness ==
  \E r \in Slots :
    /\ pc[r] = "reg_setUserSession"
    /\ Cardinality(credentials) = 2
    /\ \E c \in credentials : c.id = "cred-2" /\ c.counter = 1

\* C9: registering a credential id that is already stored fails with the
\* conflict error, establishes no session and leaves the table unchanged.
C9_DuplicateCredentialRejected ==
  [][\A r \in Slots :
       (/\ pc[r] = "reg_saveCredential"
        /\ pc'[r] # pc[r]
        /\ \E c \in credentials : c.id = TheAttestation(r).id)
         => /\ pc'[r] = "done"
            /\ result'[r] = ConflictError
            /\ credentials' = credentials
            /\ session' = session]_vars

\* the registration of a stored credential id for another, new user has
\* been refused
C9_Witness ==
  \E r \in Slots :
    /\ pc[r] = "done"
    /\ result[r] = ConflictError
    /\ "user" \in loc[r].wrote
    /\ session[r] = {}
    /\ Cardinality(credentials) = 1

\* C10: no partial persistence.  A ceremony that ended in failure has
\* written nothing to the users table or the credentials table.
C10_NoPartialPersistence ==
  \A r \in Slots :
    (pc[r] = "done" /\ result[r] # Ok) =>
      loc[r].wrote \cap {"user", "credential", "counter"} = {}

\* C11: step ordering within one ceremony.  The users and credentials tables
\* are written only by a request that is past its verifier's success; a
\* request gets past the verifier only from the verifier step; the session is
\* set by the step that ends the request with success, after all its store
\* writes; a request the verifier failed has written no table and no session.
PersistSteps ==
  {"reg_createUser", "reg_saveCredential", "auth_updateCredentialCounter"}

AfterVerify ==
  PersistSteps \cup {"reg_findUserByEmail", "reg_setUserSession",
                     "auth_findUserById", "auth_setUserSession"}

C11_StepOrdering ==
  /\ [](\A r \in Slots :
          (pc[r] = "done" /\ loc[r].threw = "verify") =>
            /\ result[r] = VerificationError
            /\ loc[r].wrote \cap {"user", "credential", "counter", "session"} = {})
  /\ [][/\ (users' # users \/ credentials' # credentials) =>
            \E r \in Slots : pc[r] \in PersistSteps /\ pc'[r] # pc[r]
        /\ \A r \in Slots :
             /\ (pc'[r] \in AfterVerify /\ pc[r] \notin AfterVerify) =>
                  pc[r] \in {"reg_verify", "auth_verify"}
             /\ (pc[r] \in {"reg_verify", "auth_verify"} /\ pc'[r] = "done") =>
                  (result'[r] = VerificationError /\ session' = session)
             /\ (session'[r] # session[r] /\ session'[r] # {}) =>
                  /\ pc[r] \in {"reg_setUserSession", "auth_setUserSession"}
                  /\ pc'[r] = "done" /\ result'[r] = Ok]_vars

\* a registration the verifier failed, next to tables other ceremonies filled
C11_Witness ==
  \E r \in Slots :
    /\ pc[r] = "done" /\ loc[r].threw = "verify" /\ loc[r].wrote = {}
    /\ session[r] = {}
    /\ Len(users) = 1 /\ credentials # {}

\* C12: if updateCredentialCounter fails during authentication, the request
\* ends with that failure at once: no counter is written and no session is
\* set for any client.
C12_NoSessionWhenUpdateFails ==
  /\ [](\A r \in Slots :
          (pc[r] = "done" /\ loc[r].threw = "updateCredentialCounter") =>
            (result[r] = UpdateFailed /\ loc[r].wrote \cap {"counter", "session"} = {}))
  /\ [][\A r \in Slots :
          (/\ pc[r] = "auth_updateCredentialCounter" /\ pc'[r] # pc[r]
           /\ "counter" \notin loc'[r].wrote) =>
            /\ pc'[r] = "done" /\ result'[r] = UpdateFailed
            /\ session' = session /\ credentials' = credentials]_vars

\* the update failed for a caller without a session, who stays without one
C12_Witness ==
  \E r \in Slots :
    /\ pc[r] = "done" /\ result[r] = UpdateFailed /\ session[r] = {}
    /\ \E q \in Slots \ {r} : session[q] # {}

\* C13: end-to-end scenario for cred-1.  Registered with counter 0, an
\* authentication reporting newCounter = 1 that gets through stores 1; an
\* authentication that reports newCounter = 1 while 1 is stored fails,
\* sets no session and leaves the counter at 1.
C13_ReplayScenario ==
  [][\A r \in Slots :
       (/\ pc[r] = "auth_updateCredentialCounter" /\ pc'[r] # pc[r]
        /\ TheCredential(r).id = "cred-1" /\ loc[r].newCounter = 1) =>
         \A c \in credentials :
           c.id = "cred-1" =>
             /\ (c.counter = 0 /\ pc'[r] # "done") =>
                  \E d \in credentials' : d.id = "cred-1" /\ d.counter = 1
             /\ c.counter = 1 =>
                  /\ pc'[r] = "done" /\ result'[r].statusCode # 200
                  /\ credentials' = credentials]_vars

\* C14: challenge expiry.  A stored challenge does not stay in storage for
\* ever: as the server goes on serving requests the entry eventually
\* disappears, consumed or not.
C14_ChallengeExpires ==
  \A a \in AttemptIds : (storage[a] # {}) ~> (storage[a] = {})

\* C15: a registration that is about to persist its credential has consumed
\* (read and deleted) a stored challenge before.
C15_RegistrationConsumesChallenge ==
  \A r \in Slots :
    pc[r] \in {"reg_createUser", "reg_saveCredential", "reg_setUserSession"} =>
      "challenge" \in loc[r].wrote

\* C16: credential-id uniqueness.  In every reachable state no two
\* credential rows have the same id: each credential id has one owner.
C16_CredentialIdUnique ==
  \A c, d \in credentials : c.id = d.id => c = d

\* two registrations for the same credential id ran side by side: one row
\* is stored, the other insert was rejected
C16_Witness ==
  /\ \E r \in Slots : pc[r] = "done" /\ loc[r].threw = "saveCredential"
  /\ \E q \in Slots : pc[q] = "reg_setUserSession"
  /\ Cardinality({c.id : c \in credentials}) = 1
  /\ Len(users) = 2

\* C17: after its creation a credential row changes in its counter only.
\* The counter is written by the updateCredentialCounter step of an
\* authentication, once per request, for the asserted credential alone; a
\* request that failed has written no counter and a successful
\* authentication has; no row is ever removed; no step of an authentication
\* changes the users table or the set of credential ids.
AuthSteps ==
  { "opt_findUserByEmail", "opt_findCredentialsByUserId", "opt_storeChallenge",
    "auth_getCredential", "auth_getItem", "auth_removeItem", "auth_verify",
    "auth_updateCredentialCounter", "auth_findUserById", "auth_setUserSession" }

C17_OnlyCounterChanges ==
  /\ [](\A r \in Slots :
          /\ (pc[r] = "done" /\ result[r] # Ok) => "counter" \notin loc[r].wrote
          /\ (pc[r] = "done" /\ result[r] = Ok
                /\ {"challenge", "session"} \subseteq loc[r].wrote) =>
               "counter" \in loc[r].wrote
          /\ (pc[r] \in AuthSteps /\ pc[r] # "auth_findUserById"
                /\ pc[r] # "auth_setUserSession") =>
               "counter" \notin loc[r].wrote)
  /\ [][/\ \A c \in credentials :
             \E d \in credentials' : d = [c EXCEPT !.counter = d.counter]
        /\ (\E c \in credentials : c \notin credentials') =>
             \E r \in Slots :
               /\ pc[r] = "auth_updateCredentialCounter"
               /\ pc'[r] = "auth_findUserById"
               /\ \A c \in credentials \ credentials' : c.id = TheCredential(r).id
        /\ \A r \in Slots :
             (pc[r] \in AuthSteps /\ pc'[r] # pc[r]) =>
               /\ users' = users
               /\ {c.id : c \in credentials'} = {c.id : c \in credentials}]_vars

\* cred-1's counter has been raised by an authentication while cred-2's row
\* is as it was stored
C17_Witness ==
  /\ \E r \in Slots : pc[r] = "auth_findUserById" /\ "counter" \in loc[r].wrote
  /\ \E c \in credentials : c.id = "cred-1" /\ c.counter = 2
  /\ \E c \in credentials : c.id = "cred-2" /\ c.counter = 1

\* C18: a registration whose claimed identity is not a valid email fails in
\* validateUser and changes no table and no session.  Without a session the
\* failure is the validation error; with a session (whose email then differs
\* from the claimed identity) it is the identity conflict, which validateUser
\* tests first.
C18_InvalidEmailRejected ==
  [][\A r \in Slots :
       (/\ pc[r] = "reg_validateUser" /\ pc'[r] # pc[r]
        /\ loc[r].userName \notin ValidEmails) =>
         /\ pc'[r] = "done"
         /\ result'[r] = IF session[r] = {} THEN ValidationError
                          ELSE IdentityConflict
         /\ loc'[r].wrote = {}
         /\ UNCHANGED <<users, credentials, session>>]_vars

\* a logged-in client is about to have an invalid email validated
C18_Witness ==
  \E r \in Slots :
    /\ pc[r] = "reg_validateUser" /\ loc[r].userName = "not-an-email"
    /\ session[r] # {} /\ credentials # {}

\* C18 as stated: the failure is the validation error whether or not a
\* session is active.
C18_AlwaysValidationError ==
  [][\A r \in Slots :
       (/\ pc[r] = "reg_validateUser" /\ pc'[r] # pc[r]
        /\ loc[r].userName \notin ValidEmails) =>
         /\ pc'[r] = "done" /\ result'[r] = ValidationError
         /\ UNCHANGED <<users, credentials, session>>]_vars

\* C19: a successful authentication sets the caller's session to the user
\* row whose id is the userId of the asserted credential's stored row.  The
\* user is resolved by the findUserById step, the only way into the
\* setUserSession step, which stores that very row for the caller alone.
C19_SessionForOwner ==
  [][\A r \in Slots :
       /\ (pc'[r] = "auth_setUserSession" /\ pc[r] # pc'[r]) =>
            /\ pc[r] = "auth_findUserById"
            /\ \E u \in UserRows :
                 /\ loc'[r].dbUser = {u}
                 /\ \A v \in UserRows : v.id = u.id => v = u
                 /\ \E c \in credentials :
                      c.id = TheCredential(r).id /\ c.userId = u.id
       /\ (pc[r] = "auth_setUserSession" /\ pc'[r] # pc[r]) =>
            /\ pc'[r] = "done" /\ result'[r] = Ok
            /\ session'[r] = loc[r].dbUser
            /\ loc[r].dbUser \subseteq UserRows
            /\ \A q \in Slots \ {r} : session'[q] = session[q]]_vars

\* an authentication has logged in the second user, owner of the asserted
\* credential, while the first user owns another credential
C19_Witness ==
  \E r \in Slots :
    /\ pc[r] = "done" /\ result[r] = Ok
    /\ {"counter", "session"} \subseteq loc[r].wrote
    /\ Len(users) = 2 /\ session[r] = {users[2]}
    /\ \E c \in credentials : c.userId = 1
    /\ \E c \in credentials : c.userId = 2

\* C20: a successful registration ends by setting the caller's session to
\* the resolved user: a row of the users table whose email is the claimed
\* identity and whose id is the userId of the stored row of the credential
\* just saved.
C20_RegistrationSession ==
  [][\A r \in Slots :
       (pc[r] = "reg_setUserSession" /\ pc'[r] # pc[r]) =>
         /\ pc'[r] = "done" /\ result'[r] = Ok
         /\ \E u \in UserRows :
              /\ session'[r] = {u}
              /\ u.email = loc[r].userName
              /\ \E c \in credentials :
                   c.id = TheAttestation(r).id /\ c.userId = u.id
         /\ \A q \in Slots \ {r} : session'[q] = session[q]]_vars

\* the second email has registered and is logged in, next to the first one
C20_Witness ==
  \E r \in Slots :
    /\ pc[r] = "done" /\ result[r] = Ok /\ "credential" \in loc[r].wrote
    /\ Len(users) = 2 /\ session[r] = {users[2]}
    /\ users[1].email # users[2].email
    /\ \E c \in credentials : c.userId = 2

\* C21: allowCredentials.  With no user row for the claimed email, and with
\* a user row that owns no credential, it fails with one and the same error,
\* 400 "User not found"; otherwise it returns exactly the credential rows
\* whose userId is that user's id.
C21_AllowCredentials ==
  [][\A r \in Slots :
       /\ (pc[r] = "opt_findUserByEmail" /\ pc'[r] # pc[r]) =>
            IF \A i \in 1..Len(users) : users[i].email # loc[r].userName
              THEN /\ pc'[r] = "done"
                   /\ result'[r] = [statusCode |-> 400, message |-> "User not found"]
              ELSE /\ pc'[r] = "opt_findCredentialsByUserId"
                   /\ \E u \in UserRows :
                        u.email = loc[r].userName /\ loc'[r].dbUser = {u}
       /\ (pc[r] = "opt_findCredentialsByUserId" /\ pc'[r] # pc[r]) =>
            LET owned == {c \in credentials : c.userId = TheDbUser(r).id}
            IN  IF owned = {}
                  THEN /\ pc'[r] = "done"
                       /\ result'[r] =
                            [statusCode |-> 400, message |-> "User not found"]
                  ELSE /\ pc'[r] = "opt_storeChallenge"
                       /\ loc'[r].allowCredentials = owned]_vars

\* the credentials of one of two users have been returned
C21_Witness ==
  \E r \in Slots :
    /\ pc[r] = "opt_storeChallenge"
    /\ Cardinality(loc[r].allowCredentials) = 1
    /\ Cardinality(credentials) = 2

\* C22: storeChallenge(attemptId, value) makes value the entry of attemptId,
\* whatever the entry was before, and leaves the entries of the other attempt
\* ids, the users, the credentials and the sessions as they were.
C22_StoreChallengeFrame ==
  [][\A r \in Slots :
       (pc[r] = "opt_storeChallenge" /\ pc'[r] # pc[r]) =>
         LET a == loc'[r].attemptId
             v == loc'[r].challenge
         IN  /\ a \in AttemptIds /\ v \in Challenges
             /\ storage'[a] = {v}
             /\ \A b \in AttemptIds \ {a} : storage'[b] = storage[b]
             /\ UNCHANGED <<users, credentials, session>>]_vars

\* a challenge has replaced a different one under t1 while t2's entry, the
\* tables and a session exist
C22_Witness ==
  \E r \in Slots :
    /\ pc[r] = "done" /\ result[r] = Ok /\ loc[r].wrote = {"challenge"}
    /\ loc[r].attemptId = "t1" /\ loc[r].challenge = "ch-y"
    /\ storage["t1"] = {"ch-y"} /\ storage["t2"] = {"ch-x"}
    /\ credentials # {}
    /\ \E q \in Slots : session[q] # {}

\* C23: an authentication whose asserted credential id has no row in the
\* credentials table fails in getCredential with 400 "Passkey not associated
\* with a user account"; it has written no counter and no session.
C23_UnknownCredential ==
  /\ [](\A r \in Slots :
          (pc[r] = "done" /\ loc[r].threw = "getCredential") =>
            (result[r] = CredentialNotFound /\ loc[r].wrote = {}))
  /\ [][\A r \in Slots :
          (/\ pc[r] = "auth_getCredential" /\ pc'[r] # pc[r]
           /\ \A c \in credentials : c.id # loc[r].credentialId) =>
            /\ pc'[r] = "done" /\ loc'[r].threw = "getCredential"
            /\ result'[r] = CredentialNotFound
            /\ UNCHANGED <<users, credentials, session>>]_vars

\* cred-2 is registered, and an authentication by a client without a session
\* has asserted an unknown credential id
C23_Witness ==
  \E r \in Slots :
    /\ pc[r] = "done" /\ result[r] = CredentialNotFound /\ session[r] = {}
    /\ credentials # {} /\ \A c \in credentials : c.id = "cred-2"

\* C24: last write wins on the counter.  Every updateCredentialCounter that
\* goes through leaves the asserted credential's counter at that request's
\* newCounter, whatever was stored, lower or not; nothing else changes a stored
\* counter.  After two authentications for one credential the counter is
\* therefore the newCounter of the one that updated last.
C24_LastWriteWins ==
  [][/\ \A r \in Slots :
          (pc[r] = "auth_updateCredentialCounter"
             /\ pc'[r] = "auth_findUserById") =>
            /\ \E d \in credentials' : d.id = TheCredential(r).id
            /\ \A d \in credentials' :
                 d.id = TheCredential(r).id => d.counter = loc[r].newCounter
     /\ (\E c \in credentials : \E d \in credentials' :
           d.id = c.id /\ d.counter # c.counter) =>
          \E r \in Slots : /\ pc[r] = "auth_updateCredentialCounter"
                           /\ pc'[r] = "auth_findUserById"]_vars

\* two authentications for cred-1 have passed verification; one has stored
\* its counter 2, the other is about to store its lower counter 1
C24_Witness ==
  \E r1, r2 \in Slots :
    /\ pc[r1] = "auth_findUserById" /\ "counter" \in loc[r1].wrote
    /\ TheCredential(r1).id = "cred-1"
    /\ pc[r2] = "auth_updateCredentialCounter" /\ loc[r2].newCounter = 1
    /\ TheCredential(r2).id = "cred-1"
    /\ \E c \in credentials : c.id = "cred-1" /\ c.counter = 2

\* C25: concurrent registrations for one new email end with exactly one user
\* row for that email, owner of the credentials of both: no two user rows
\* have the same email, and every registration that is past resolving its
\* user holds the one row of its email.
C25_OneUserPerEmail ==
  /\ \A i, j \in 1..Len(users) : users[i].email = users[j].email => i = j
  /\ \A r \in Slots :
       pc[r] \in {"reg_saveCredential", "reg_setUserSession"} =>
         \A u \in UserRows : u.email = loc[r].userName => loc[r].dbUser = {u}

\* C26: no internal retries.  A request moves through the steps of its
\* handler in order and never back, so no step runs twice; before each
\* mutating step its write has not been done by the request; a step that
\* fails ends the request at once, and the only thing that follows is the
\* response.
Rank(label) ==
  CASE label = "idle" -> 0
    [] label \in {"reg_validateUser", "opt_findUserByEmail",
                  "auth_getCredential"} -> 1
    [] label \in {"reg_verify", "opt_findCredentialsByUserId",
                  "auth_getItem"} -> 2
    [] label \in {"reg_findUserByEmail", "opt_storeChallenge",
                  "auth_removeItem"} -> 3
    [] label \in {"reg_createUser", "auth_verify"} -> 4
    [] label \in {"reg_saveCredential", "auth_updateCredentialCounter"} -> 5
    [] label \in {"reg_setUserSession", "auth_findUserById"} -> 6
    [] label = "auth_setUserSession" -> 7
    [] label = "done" -> 8

WriteOf(label) ==
  CASE label = "reg_createUser" -> "user"
    [] label = "reg_saveCredential" -> "credential"
    [] label = "auth_updateCredentialCounter" -> "counter"
    [] label = "auth_removeItem" -> "challenge"
    [] label \in {"reg_setUserSession", "auth_setUserSession"} -> "session"
    [] OTHER -> "none"

C26_NoRetries ==
  /\ [](\A r \in Slots : WriteOf(pc[r]) \notin loc[r].wrote)
  /\ [][\A r \in Slots :
          /\ pc'[r] # pc[r] =>
               \/ pc[r] = "done" /\ pc'[r] = "idle"
               \/ pc[r] # "done" /\ Rank(pc'[r]) > Rank(pc[r])
          /\ (result'[r] # result[r] /\ result'[r] \notin {Ok, NoResult}) =>
               (pc'[r] = "done" /\ pc[r] # "done")
          /\ (pc[r] = "done" /\ (pc'[r] # pc[r] \/ loc'[r] # loc[r]
                                  \/ result'[r] # result[r])) =>
               /\ pc'[r] = "idle"
               /\ UNCHANGED <<users, credentials, storage, session>>]_vars

\* a registration failed in saveCredential after its createUser: it stopped
\* there, with the one write it had done
C26_Witness ==
  \E r \in Slots :
    /\ pc[r] = "done" /\ loc[r].threw = "saveCredential"
    /\ loc[r].wrote = {"user"}

\* C27: getChallenge(attemptId) reads the entry of attemptId and no other, and
\* its removeItem empties that entry on every call, also on the calls that
\* fail for want of an entry; the entries of the other attempt ids stay as
\* they are.
C27_GetChallengeFrame ==
  [][\A r \in Slots :
       /\ (pc[r] = "auth_getItem" /\ pc'[r] # pc[r]) =>
            /\ storage' = storage
            /\ loc'[r].attemptId = loc[r].attemptId
            /\ IF storage[loc[r].attemptId] = {}
                 THEN loc'[r].challenge = ""
                 ELSE storage[loc[r].attemptId] = {loc'[r].challenge}
       /\ (pc[r] = "auth_removeItem" /\ pc'[r] # pc[r]) =>
            /\ storage'[loc[r].attemptId] = {}
            /\ \A b \in AttemptIds \ {loc[r].attemptId} : storage'[b] = storage[b]
            /\ loc[r].challenge = "" =>
                 (pc'[r] = "done" /\ result'[r] = ChallengeExpired)]_vars

\* a getChallenge for an attempt without entry has failed; the other
\* attempt's challenge is still stored
C27_Witness ==
  \E r \in Slots :
    /\ pc[r] = "done" /\ loc[r].threw = "getChallenge"
    /\ storage["t1"] = {} /\ storage["t2"] # {}

\* C28: user rows are never deleted and never change their id or email; the
\* users table grows only by the createUser step of a registration, by one
\* row, for an email that had no row.
C28_UsersOnlyGrow ==
  [][/\ Len(users') >= Len(users)
     /\ \A i \in 1..Len(users) : users'[i] = users[i]
     /\ users' # users =>
          \E r \in Slots :
            /\ pc[r] = "reg_createUser" /\ pc'[r] = "reg_saveCredential"
            /\ Len(users') = Len(users) + 1
            /\ users'[Len(users')].email = loc[r].userName
            /\ \A i \in 1..Len(users) : users[i].email # loc[r].userName]_vars

\* C29: referential integrity.  Every credential row's userId is the id of a
\* user row, so the authentication's findUserById always finds its user and
\* its "User not found" is never thrown.
C29_ReferentialIntegrity ==
  /\ \A c \in credentials : \E i \in 1..Len(users) : users[i].id = c.userId
  /\ \A r \in Slots :
       /\ loc[r].threw # "onSuccess:user"
       /\ pc[r] = "auth_findUserById" =>
            \E i \in 1..Len(users) : users[i].id = TheCredential(r).userId

\* the authentication's lookup has found the second of two users
C29_Witness ==
  \E r \in Slots :
    /\ pc[r] = "auth_setUserSession" /\ "counter" \in loc[r].wrote
    /\ Len(users) = 2 /\ loc[r].dbUser = {users[2]}

\* C30: session soundness.  The user of every session is a row of the users
\* table that owns at least one credential row; a request that ended in
\* failure has set no session, and the step that ends a request in failure
\* leaves every session as it was.
C30_SessionSoundness ==
  /\ [](\A r \in Slots :
          /\ \A u \in session[r] :
               /\ \E i \in 1..Len(users) : users[i] = u
               /\ \E c \in credentials : c.userId = u.id
          /\ (pc[r] = "done" /\ result[r] # Ok) => "session" \notin loc[r].wrote)
  /\ [][\A r \in Slots :
          (pc'[r] = "done" /\ pc[r] # "done" /\ result'[r] # Ok) =>
            session' = session]_vars

\* a logged-in client's registration for its own email failed on a duplicate
\* credential id: its session is the one it had
C30_Witness ==
  \E r \in Slots :
    /\ pc[r] = "done" /\ result[r] = ConflictError /\ loc[r].wrote = {}
    /\ session[r] # {}
    /\ \E c \in credentials : \E u \in session[r] : c.userId = u.id

\* C31: a registration by a logged-in client never switches the client to
\* another user.  When the registration succeeds, the session it sets is for
\* the user id of the session the client had, and the credential it saved is
\* owned by that user.
C31_SessionUserKept ==
  [][\A r \in Slots :
       (/\ pc[r] = "reg_setUserSession" /\ pc'[r] = "done" /\ result'[r] = Ok
        /\ session[r] # {}) =>
         \A u \in session[r] :
           /\ \E v \in session'[r] : v.id = u.id
           /\ \A v \in session'[r] : v.id = u.id
           /\ \E c \in credentials :
                c.id = TheAttestation(r).id /\ c.userId = u.id]_vars

====
